---- MODULE Spec2Model ----
(***************************************************************************)
(* A model of menyoki's interactive window selection                       *)
(* (Display::select_window, src/src/x11/display.rs) and of the             *)
(* application's capture/record paths (App, src/src/app.rs).               *)
(***************************************************************************)
EXTENDS Integers, Sequences, FiniteSets, TLC

(***************************************************************************)
(* Program constants                                                       *)
(***************************************************************************)
\* Duration::as_secs() truncates the elapsed milliseconds to whole seconds.
MsPerSec == 1000
\* let mut change_factor = 3;
DefaultChange == 3
\* the area guard of an Alt adjustment
MinArea == 5
\* the area guard of a Shift+Alt adjustment
MinAreaShift == 10

(***************************************************************************)
(* Bounds of the model                                                     *)
(***************************************************************************)
\* the largest configured selection timeout, in seconds
MaxTimeout == 1
\* the most frames a recording of the model captures
MaxFrames == 3
\* the duration of a synchronous recording, in frames
Duration == 2
\* the largest value of a padding side: the code's values are u32, the model
\* keeps the checked arithmetic on a narrower word
ValueMax == 255
\* the most frames of a decoded animation
MaxSplit == 11
\* the most entries of the configured list of image files
MaxImages == 3

(***************************************************************************)
(* Values                                                                  *)
(***************************************************************************)
\* the root window of the default screen
RootId == 1
\* the windows of the display: the root window and one application window
Windows == {RootId, RootId + 1}

\* Option<T>: None and Some(v)
Nothing == <<>>
Some(v) == <<v>>
unwrap_or(o, d) == IF o = Nothing THEN d ELSE o[1]

Geometry(w, h) == [width |-> w, height |-> h]
Padding(t, r, b, l) == [top |-> t, right |-> r, bottom |-> b, left |-> l]

\* The geometry XGetGeometry reports for each window of the display.
WinGeom(id) == IF id = RootId THEN Geometry(12, 12) ELSE Geometry(8, 8)

\* configured poll intervals (milliseconds)
Intervals == {500, 1000}
Timeouts == 0 .. MaxTimeout
\* configured paddings and requested selection sizes (zero: none requested)
Paddings == {Padding(0, 0, 0, 0), Padding(1, 0, 0, 4)}
Sizes == {Geometry(0, 0), Geometry(4, 20)}

\* The key snapshots device_query can report (keys in keycode order).
KeySeqs ==
    { <<>>,
      <<"S", "LAlt">>,
      <<"Escape">>,
      <<"Escape", "S", "LAlt">>,
      <<"R", "LAlt">>,
      <<"Key8">>,
      <<"Key8", "LAlt">>,
      <<"LAlt", "Left">>,
      <<"LAlt", "Right">>,
      <<"LControl", "LAlt", "Left">>,
      <<"LControl", "LAlt", "Right">>,
      <<"LShift", "LAlt", "Left">> }

VARIABLES
    pc,             \* position of the caller in select_window
    keys,           \* the keys currently pressed (what get_keys() returns)
    focus,          \* the window that currently has the input focus
    root,           \* settings.window is RecordWindow::Root
    size,           \* the geometry carried by settings.window
    border,         \* settings.border.is_some()
    timeout,        \* settings.time.timeout (seconds)
    interval,       \* settings.time.interval (milliseconds)
    padding,        \* self.settings.padding
    window_padding, \* the local window_padding of select_window
    window,         \* the local window: its xid and the padding it was built with
    xid,            \* the local xid: Option<u64>
    change_factor,  \* the local change_factor
    reset_area,     \* the local reset_area of update_area
    elapsed,        \* start_time.elapsed() in milliseconds
    grabbed,        \* windows with a passive key grab of this client
    drawn,          \* windows on which a selection border is drawn
    result,         \* what select_window returned
    reason,         \* why the loop ended
    ticks,          \* how many times the loop body was entered
    pressed         \* a key has been pressed since select_window was called

VARIABLES
    apc,            \* position of the calling thread in App::start
    app_window,     \* self.window.is_some()
    format,         \* settings.save.file.format
    has_command,    \* settings.record.command.is_some()
    flag_keys,      \* settings.record.flag.keys
    user_input,     \* the user gives the input that stops a recording
    worker,         \* the background thread: none, running, finished, joined
    wres,           \* the terminal value of the background thread
    wframes,        \* frames the recorder has captured
    stop,           \* the stop signal has been sent to the worker
    cmd,            \* the external command: idle, running, done, failed
    frames,         \* the frames record() returned: Option<Vec<Image>>
    image,          \* the image capture() returned
    file_created,   \* the output file has been created
    saved,          \* what was encoded to the output
    released,       \* calls of window.release()
    consumed,       \* times the terminal value of the thread was taken
    spawned,        \* threads spawned
    panicked        \* the message of the panic of the calling thread

appvars == <<apc, app_window, format, has_command, flag_keys, user_input,
             worker, wres, wframes, stop, cmd, frames, image, file_created,
             saved, released, consumed, spawned, panicked>>

selvars == <<pc, keys, focus, root, size, border, timeout, interval, padding,
             window_padding, window, xid, change_factor, reset_area,
             elapsed, grabbed, drawn, result, reason, ticks, pressed>>

VARIABLES
    wgeom,          \* Window.geometry: x, y, width, height
    rect,           \* the rectangle drawn on the window, if any
    wops,           \* the last two operations called on the window
    wpc             \* the caller of the window operations: "run" or "panic"

VARIABLES
    button_pressed, \* MouseState.button_pressed (index 0 is not a button)
    device_keys,    \* DeviceState.get_keys()
    mouse_checked,  \* what check_mouse() returned: Option<bool>
    keys_checked    \* what check_keys() returned: Option<bool>

VARIABLES
    fpc,            \* position of the caller in get_frames / split_gif
    fmode,          \* the subcommand: "make" or "split"
    gif_frames,     \* settings.gif.frames: the configured file list
    images,         \* the Vec<Image> built or decoded
    encoded,        \* Gif.frames: the frames added to the encoder
    dir,            \* settings.split.dir exists
    files,          \* the files created, in the order of their creation
    fformat,        \* settings.save.file.format
    fresult         \* how the call ended: Ok, Err or a panic

winvars == <<wgeom, rect, wops, wpc>>
inputvars == <<button_pressed, device_keys, mouse_checked, keys_checked>>
framevars == <<fpc, fmode, gif_frames, images, encoded, dir, files, fformat,
               fresult>>
libvars == <<winvars, inputvars, framevars>>

vars == <<selvars, appvars, libvars>>

(***************************************************************************)
(* InputState                                                              *)
(***************************************************************************)
Contains(ks, k) == \E i \in 1 .. Len(ks) : ks[i] = k

\* the cancel keys: Escape, or LControl and D
check_cancel_keys(ks) ==
    Contains(ks, "Escape") \/ (Contains(ks, "LControl") /\ Contains(ks, "D"))

\* the action keys: LAlt (main key) and S
check_action_keys(ks) == Contains(ks, "LAlt") /\ Contains(ks, "S")

(***************************************************************************)
(* Padding and geometry                                                    *)
(***************************************************************************)
checked_add(a, b) == IF a + b <= ValueMax THEN Some(a + b) ELSE Nothing
checked_sub(a, b) == IF a >= b THEN Some(a - b) ELSE Nothing
saturating_sub(a, b) == IF a >= b THEN a - b ELSE 0

is_zero(g) == g.width = 0 /\ g.height = 0

\* Padding::get_modifiers: each side with its increase and its decrease keys
Modifiers == <<"top", "right", "bottom", "left">>
increase(side) ==
    CASE side = "top" -> {"Down", "J"}
      [] side = "right" -> {"Left", "H"}
      [] side = "bottom" -> {"Up", "K"}
      [] side = "left" -> {"Right", "L"}
decrease(side) ==
    CASE side = "top" -> {"Up", "K"}
      [] side = "right" -> {"Right", "L"}
      [] side = "bottom" -> {"Down", "J"}
      [] side = "left" -> {"Left", "H"}

\* Window::area: the window geometry inset by the padding
with_padding(g, p) ==
    Geometry(saturating_sub(g.width, p.left + p.right),
             saturating_sub(g.height, p.top + p.bottom))

Area(w) == with_padding(WinGeom(w.xid), w.pad)

\* the digit of a KeyN keycode, as format!("{:?}", key) and parse::<u32>() give it
IsDigitKey(k) == k \in {"Key0", "Key1", "Key2", "Key3", "Key4",
                        "Key5", "Key6", "Key7", "Key8", "Key9"}
DigitOf(k) ==
    CASE k = "Key0" -> 0 [] k = "Key1" -> 1 [] k = "Key2" -> 2
      [] k = "Key3" -> 3 [] k = "Key4" -> 4 [] k = "Key5" -> 5
      [] k = "Key6" -> 6 [] k = "Key7" -> 7 [] k = "Key8" -> 8
      [] k = "Key9" -> 9

(***************************************************************************)
(* Display                                                                 *)
(***************************************************************************)
\* get_window().0: the root window or the focused one, built with the
\* settings (the padding) of this moment
get_window == [xid |-> IF root THEN RootId ELSE focus, pad |-> padding]

\* update_padding, a window smaller than the size keeping its own dimension
update_padding_keeps_dimension(p, sz, g) ==
    IF ~is_zero(sz)
    THEN Padding(0,
                 unwrap_or(checked_sub(g.width, sz.width), g.width),
                 unwrap_or(checked_sub(g.height, sz.height), g.height),
                 0)
    ELSE p

\* update_padding: the padding that yields the requested size
update_padding(p, sz, g) ==
    IF ~is_zero(sz)
    THEN Padding(0,
                 unwrap_or(checked_sub(g.width, sz.width), 0),
                 unwrap_or(checked_sub(g.height, sz.height), 0),
                 0)
    ELSE p

\* ungrab_keys(xid): XUngrabKey on the window, nothing for None
ungrab_keys(g, id) == IF id # Nothing THEN g \ {id[1]} ELSE g

\* match_keys, the Ctrl+Alt branch adding the step instead of taking it
match_keys_ctrl_adds(ks, side, value, change, area) ==
    LET same == [value |-> value, change |-> change, reset |-> FALSE]
        alt(key) ==
            IF key \in increase(side) /\ (area.height > MinArea /\ area.width > MinArea)
            THEN [same EXCEPT !.value = unwrap_or(checked_add(value, change), value)]
            ELSE IF IsDigitKey(key)
                 THEN [same EXCEPT !.change = DigitOf(key)]
                 ELSE same
        ctrl(key) ==
            IF key \in decrease(side)
            THEN [same EXCEPT !.value = unwrap_or(checked_add(value, change), value)]
            ELSE same
        shift(key) ==
            LET big == area.height > MinAreaShift /\ area.width > MinAreaShift
                v1 == IF key \in increase(side) /\ big
                      THEN unwrap_or(checked_add(value, change), value)
                      ELSE value
                v2 == IF key \in decrease(side) /\ big
                      THEN unwrap_or(checked_sub(v1, change), v1)
                      ELSE v1
            IN [same EXCEPT !.value = v2]
    IN  IF ks = <<"R", "LAlt">> THEN [same EXCEPT !.reset = TRUE]
        ELSE IF Len(ks) = 2 /\ ks[1] = "LAlt" THEN alt(ks[2])
        ELSE IF Len(ks) = 2 /\ ks[2] = "LAlt" THEN alt(ks[1])
        ELSE IF Len(ks) = 3 /\ ks[1] = "LControl" /\ ks[2] = "LAlt" THEN ctrl(ks[3])
        ELSE IF Len(ks) = 3 /\ ks[1] = "LControl" /\ ks[3] = "LAlt" THEN ctrl(ks[2])
        ELSE IF Len(ks) = 3 /\ ks[1] = "LShift" /\ ks[2] = "LAlt" THEN shift(ks[3])
        ELSE IF Len(ks) = 3 /\ ks[2] = "LShift" /\ ks[3] = "LAlt" THEN shift(ks[1])
        ELSE same

\* match_keys, the Shift+Alt branch guarded by the area of the Alt branch
match_keys_shift_min_area(ks, side, value, change, area) ==
    LET same == [value |-> value, change |-> change, reset |-> FALSE]
        alt(key) ==
            IF key \in increase(side) /\ (area.height > MinArea /\ area.width > MinArea)
            THEN [same EXCEPT !.value = unwrap_or(checked_add(value, change), value)]
            ELSE IF IsDigitKey(key)
                 THEN [same EXCEPT !.change = DigitOf(key)]
                 ELSE same
        ctrl(key) ==
            IF key \in decrease(side)
            THEN [same EXCEPT !.value = unwrap_or(checked_sub(value, change), value)]
            ELSE same
        shift(key) ==
            LET big == area.height > MinArea /\ area.width > MinArea
                v1 == IF key \in increase(side) /\ big
                      THEN unwrap_or(checked_add(value, change), value)
                      ELSE value
                v2 == IF key \in decrease(side) /\ big
                      THEN unwrap_or(checked_sub(v1, change), v1)
                      ELSE v1
            IN [same EXCEPT !.value = v2]
    IN  IF ks = <<"R", "LAlt">> THEN [same EXCEPT !.reset = TRUE]
        ELSE IF Len(ks) = 2 /\ ks[1] = "LAlt" THEN alt(ks[2])
        ELSE IF Len(ks) = 2 /\ ks[2] = "LAlt" THEN alt(ks[1])
        ELSE IF Len(ks) = 3 /\ ks[1] = "LControl" /\ ks[2] = "LAlt" THEN ctrl(ks[3])
        ELSE IF Len(ks) = 3 /\ ks[1] = "LControl" /\ ks[3] = "LAlt" THEN ctrl(ks[2])
        ELSE IF Len(ks) = 3 /\ ks[1] = "LShift" /\ ks[2] = "LAlt" THEN shift(ks[3])
        ELSE IF Len(ks) = 3 /\ ks[2] = "LShift" /\ ks[3] = "LAlt" THEN shift(ks[1])
        ELSE same

\* One iteration of the loop of update_area over the modifiers: the match on
\* the pressed keys for the side `side` whose value is `value`.
match_keys(ks, side, value, change, area) ==
    LET same == [value |-> value, change |-> change, reset |-> FALSE]
        alt(key) ==
            IF key \in increase(side) /\ (area.height > MinArea /\ area.width > MinArea)
            THEN [same EXCEPT !.value = unwrap_or(checked_add(value, change), value)]
            ELSE IF IsDigitKey(key)
                 THEN [same EXCEPT !.change = DigitOf(key)]
                 ELSE same
        ctrl(key) ==
            IF key \in decrease(side)
            THEN [same EXCEPT !.value = unwrap_or(checked_sub(value, change), value)]
            ELSE same
        shift(key) ==
            LET big == area.height > MinAreaShift /\ area.width > MinAreaShift
                v1 == IF key \in increase(side) /\ big
                      THEN unwrap_or(checked_add(value, change), value)
                      ELSE value
                v2 == IF key \in decrease(side) /\ big
                      THEN unwrap_or(checked_sub(v1, change), v1)
                      ELSE v1
            IN [same EXCEPT !.value = v2]
    IN  IF ks = <<"R", "LAlt">> THEN [same EXCEPT !.reset = TRUE]
        ELSE IF Len(ks) = 2 /\ ks[1] = "LAlt" THEN alt(ks[2])
        ELSE IF Len(ks) = 2 /\ ks[2] = "LAlt" THEN alt(ks[1])
        ELSE IF Len(ks) = 3 /\ ks[1] = "LControl" /\ ks[2] = "LAlt" THEN ctrl(ks[3])
        ELSE IF Len(ks) = 3 /\ ks[1] = "LControl" /\ ks[3] = "LAlt" THEN ctrl(ks[2])
        ELSE IF Len(ks) = 3 /\ ks[1] = "LShift" /\ ks[2] = "LAlt" THEN shift(ks[3])
        ELSE IF Len(ks) = 3 /\ ks[2] = "LShift" /\ ks[3] = "LAlt" THEN shift(ks[1])
        ELSE same

\* as_secs, on a clock that stands still
as_secs_stopped(ms) == 0

\* start_time.elapsed().as_secs()
as_secs(ms) == ms \div MsPerSec

(***************************************************************************)
(* select_window                                                           *)
(***************************************************************************)
SelInit ==
    /\ pc = "head"
    /\ keys \in KeySeqs
    /\ root \in BOOLEAN
    /\ focus \in IF root THEN {RootId} ELSE Windows
    /\ size \in Sizes
    /\ border \in BOOLEAN
    /\ timeout \in Timeouts
    /\ interval \in Intervals
    /\ padding \in Paddings
    /\ window_padding = padding
    /\ window = get_window
    /\ xid = Nothing
    /\ change_factor = DefaultChange
    /\ reset_area = FALSE
    /\ elapsed = 0
    /\ grabbed = {}
    /\ drawn = {}
    /\ result = "pending"
    /\ reason = "running"
    /\ ticks = 0
    /\ pressed = (keys # <<>>)

\* while !input_state.check_action_keys() { window = self.get_window().0;
\* window.draw_borders(); show_text_centered; the entry of update_area
select_head ==
    /\ pc = "head"
    /\ IF check_action_keys(keys)
       THEN /\ pc' = "exit"
            /\ reason' = "action"
            /\ UNCHANGED <<window, drawn, reset_area, ticks>>
       ELSE /\ pc' = "area"
            /\ window' = get_window
            /\ drawn' = IF border THEN drawn \cup {get_window.xid} ELSE drawn
            /\ reset_area' = FALSE
            /\ ticks' = ticks + 1
            /\ UNCHANGED reason
    /\ UNCHANGED <<keys, focus, root, size, border, timeout, interval, padding,
                   window_padding, xid, change_factor, elapsed, grabbed, result>>
    /\ UNCHANGED <<pressed, appvars, libvars>>

\* `for (value, increase, decrease) in modifiers`, from the modifier i on
RECURSIVE for_modifiers(_, _, _, _, _, _)
for_modifiers(i, ks, p, c, rs, area) ==
    IF i > Len(Modifiers) THEN [padding |-> p, change |-> c, reset |-> rs]
    ELSE LET side == Modifiers[i]
             r == match_keys(ks, side, p[side], c, area)
         IN for_modifiers(i + 1, ks, [p EXCEPT ![side] = r.value], r.change, rs \/ r.reset, area)

\* update_area, every call starting from the default step
update_area_default_step ==
    /\ pc = "area"
    /\ LET r == for_modifiers(1, keys, padding, DefaultChange, FALSE, Area(window))
       IN /\ padding' = r.padding
          /\ change_factor' = r.change
          /\ reset_area' = r.reset
    /\ pc' = "check"
    /\ UNCHANGED <<keys, focus, root, size, border, timeout, interval,
                   window_padding, window, xid, elapsed, grabbed, drawn, result,
                   reason, ticks>>
    /\ UNCHANGED <<pressed, appvars, libvars>>

\* update_area(window, input_state, &mut change_factor): the keys are read
\* once for the four iterations of one call
update_area ==
    /\ pc = "area"
    /\ LET r == for_modifiers(1, keys, padding, change_factor, FALSE, Area(window))
       IN /\ padding' = r.padding
          /\ change_factor' = r.change
          /\ reset_area' = r.reset
    /\ pc' = "check"
    /\ UNCHANGED <<keys, focus, root, size, border, timeout, interval,
                   window_padding, window, xid, elapsed, grabbed, drawn, result,
                   reason, ticks>>
    /\ UNCHANGED <<pressed, appvars, libvars>>

\* select_cancel, forgetting xid = Nothing
select_cancel_keeps_xid ==
    /\ pc = "check"
    /\ check_cancel_keys(keys)
    /\ reason' = "cancel"
    /\ pc' = "exit"
    /\ UNCHANGED <<keys, focus, root, size, border, timeout, interval, padding,
                   window_padding, window, xid, change_factor, reset_area,
                   elapsed, grabbed, drawn, result, ticks>>
    /\ UNCHANGED <<pressed, appvars, libvars>>

\* if input_state.check_cancel_keys() { xid = Nothing; break; }
select_cancel ==
    /\ pc = "check"
    /\ check_cancel_keys(keys)
    /\ xid' = Nothing
    /\ reason' = "cancel"
    /\ pc' = "exit"
    /\ UNCHANGED <<keys, focus, root, size, border, timeout, interval, padding,
                   window_padding, window, change_factor, reset_area,
                   elapsed, grabbed, drawn, result, ticks>>
    /\ UNCHANGED <<pressed, appvars, libvars>>

\* select_timeout, tested before the cancel keys
select_timeout_first ==
    /\ pc = "check"
    /\ as_secs(elapsed) > timeout
    /\ xid' = Nothing
    /\ reason' = "timeout"
    /\ pc' = "exit"
    /\ UNCHANGED <<keys, focus, root, size, border, timeout, interval, padding,
                   window_padding, window, change_factor, reset_area,
                   elapsed, grabbed, drawn, result, ticks>>
    /\ UNCHANGED <<pressed, appvars, libvars>>

\* else if start_time.elapsed().as_secs() > timeout { xid = Nothing; break; }
select_timeout ==
    /\ pc = "check"
    /\ ~check_cancel_keys(keys)
    /\ as_secs(elapsed) > timeout
    /\ xid' = Nothing
    /\ reason' = "timeout"
    /\ pc' = "exit"
    /\ UNCHANGED <<keys, focus, root, size, border, timeout, interval, padding,
                   window_padding, window, change_factor, reset_area,
                   elapsed, grabbed, drawn, result, ticks>>
    /\ UNCHANGED <<pressed, appvars, libvars>>

\* select_grab, without self.settings.padding = window_padding
select_grab_keeps_padding ==
    /\ pc = "check"
    /\ ~check_cancel_keys(keys)
    /\ ~(as_secs(elapsed) > timeout)
    /\ xid # Some(window.xid) \/ reset_area
    /\ padding' = update_padding(padding, size, WinGeom(window.xid))
    /\ drawn' = drawn \ {window.xid}
    /\ grabbed' = ungrab_keys(grabbed, xid) \cup {window.xid}
    /\ xid' = Some(window.xid)
    /\ elapsed' = elapsed + interval
    /\ pc' = "head"
    /\ UNCHANGED <<keys, focus, root, size, border, timeout, interval,
                   window_padding, window, change_factor, reset_area,
                   result, reason, ticks>>
    /\ UNCHANGED <<pressed, appvars, libvars>>

\* select_grab, the configured padding restored but no size applied
select_grab_skips_size ==
    /\ pc = "check"
    /\ ~check_cancel_keys(keys)
    /\ ~(as_secs(elapsed) > timeout)
    /\ xid # Some(window.xid) \/ reset_area
    /\ padding' = window_padding
    /\ drawn' = drawn \ {window.xid}
    /\ grabbed' = ungrab_keys(grabbed, xid) \cup {window.xid}
    /\ xid' = Some(window.xid)
    /\ elapsed' = elapsed + interval
    /\ pc' = "head"
    /\ UNCHANGED <<keys, focus, root, size, border, timeout, interval,
                   window_padding, window, change_factor, reset_area,
                   result, reason, ticks>>
    /\ UNCHANGED <<pressed, appvars, libvars>>

\* else if xid != Some(window.xid) || reset_area { ungrab, reset the padding,
\* clear the area, grab the action key, xid = Some(window.xid) };
\* thread::sleep(Duration::from_millis(interval))
select_grab ==
    /\ pc = "check"
    /\ ~check_cancel_keys(keys)
    /\ ~(as_secs(elapsed) > timeout)
    /\ xid # Some(window.xid) \/ reset_area
    /\ padding' = update_padding(window_padding, size, WinGeom(window.xid))
    /\ drawn' = drawn \ {window.xid}
    /\ grabbed' = ungrab_keys(grabbed, xid) \cup {window.xid}
    /\ xid' = Some(window.xid)
    /\ elapsed' = elapsed + interval
    /\ pc' = "head"
    /\ UNCHANGED <<keys, focus, root, size, border, timeout, interval,
                   window_padding, window, change_factor, reset_area,
                   result, reason, ticks>>
    /\ UNCHANGED <<pressed, appvars, libvars>>

\* none of the three branches; thread::sleep(Duration::from_millis(interval))
select_continue ==
    /\ pc = "check"
    /\ ~check_cancel_keys(keys)
    /\ ~(as_secs(elapsed) > timeout)
    /\ ~(xid # Some(window.xid) \/ reset_area)
    /\ elapsed' = elapsed + interval
    /\ pc' = "head"
    /\ UNCHANGED <<keys, focus, root, size, border, timeout, interval, padding,
                   window_padding, window, xid, change_factor, reset_area,
                   grabbed, drawn, result, reason, ticks>>
    /\ UNCHANGED <<pressed, appvars, libvars>>

\* after the loop: ungrab_keys(xid); clear the area if a border is
\* configured; Some(window) if xid.is_some()
select_exit ==
    /\ pc = "exit"
    /\ grabbed' = ungrab_keys(grabbed, xid)
    /\ drawn' = IF border THEN drawn \ {window.xid} ELSE drawn
    /\ result' = IF xid # Nothing THEN "some" ELSE "none"
    /\ pc' = "done"
    /\ UNCHANGED <<keys, focus, root, size, border, timeout, interval, padding,
                   window_padding, window, xid, change_factor, reset_area,
                   elapsed, reason, ticks>>
    /\ UNCHANGED <<pressed, appvars, libvars>>

\* the user presses or releases keys while the loop polls them
press_keys ==
    /\ pc \in {"head", "area", "check"}
    /\ \E ks \in KeySeqs \ {keys} : keys' = ks
    /\ UNCHANGED <<pc, focus, root, size, border, timeout, interval, padding,
                   window_padding, window, xid, change_factor, reset_area,
                   elapsed, grabbed, drawn, result, reason, ticks>>
    /\ pressed' = TRUE
    /\ UNCHANGED <<appvars, libvars>>

\* the input focus moves to another window
change_focus ==
    /\ pc \in {"head", "area", "check"}
    /\ ~root
    /\ \E w \in Windows \ {focus} : focus' = w
    /\ UNCHANGED <<pc, keys, root, size, border, timeout, interval, padding,
                   window_padding, window, xid, change_factor, reset_area,
                   elapsed, grabbed, drawn, result, reason, ticks>>
    /\ UNCHANGED <<pressed, appvars, libvars>>

SelNext ==
    \/ select_head
    \/ update_area
    \/ select_cancel
    \/ select_timeout
    \/ select_grab
    \/ select_continue
    \/ select_exit
    \/ press_keys
    \/ change_focus

(***************************************************************************)
(* Window: the border of the selection                                     *)
(***************************************************************************)
\* Geometry::new(x, y, width, height)
GeometryAt(x, y, w, h) == [x |-> x, y |-> y, width |-> w, height |-> h]

\* the geometries XGetGeometry reports for the windows of this model
WinGeoms ==
    {GeometryAt(x, y, w, h) : x \in {0, 3}, y \in {0, 3}, w \in {1, 2, 8}, h \in {1, 2, 8}}
\* the paddings draw_borders is called with
BorderPaddings == {0, 1, 5}

\* a - b on the unsigned word of the model, wrapping as a build without
\* overflow checks does
wrapping_sub(a, b) == (a - b + (ValueMax + 1)) % (ValueMax + 1)

\* the window variables while no window operation is modelled
WinIdle ==
    /\ wgeom = GeometryAt(0, 0, 1, 1)
    /\ rect = Nothing
    /\ wops = <<"none", "none">>
    /\ wpc = "idle"

\* Window::new(xid, display): the geometry is read with set_geometry
WinInit ==
    /\ wgeom \in WinGeoms
    /\ rect = Nothing
    /\ wops = <<"none", "new">>
    /\ wpc = "run"

\* draw_borders, keeping the rectangle drawn as the geometry of the window
draw_borders_stores_rect ==
    /\ wpc = "run"
    /\ \E padding_ \in BorderPaddings :
          LET r == GeometryAt(wgeom.x + padding_, wgeom.y + padding_,
                              wrapping_sub(wgeom.width, padding_ * 2),
                              wrapping_sub(wgeom.height, padding_ * 2))
          IN IF padding_ * 2 <= wgeom.width /\ padding_ * 2 <= wgeom.height
             THEN rect' = Some(r) /\ wgeom' = r /\ wpc' = wpc
             ELSE \/ rect' = rect /\ wgeom' = wgeom /\ wpc' = "panic"
                  \/ rect' = Some(r) /\ wgeom' = r /\ wpc' = wpc
    /\ wops' = <<wops[2], "draw_borders">>
    /\ UNCHANGED <<selvars, appvars, inputvars, framevars>>

\* draw_borders(fg_color, padding): XDrawRectangle at (x + padding,
\* y + padding) of width - padding * 2 by height - padding * 2; the unsigned
\* subtraction panics with overflow checks and wraps without them
draw_borders ==
    /\ wpc = "run"
    /\ \E padding_ \in BorderPaddings :
          LET r == GeometryAt(wgeom.x + padding_, wgeom.y + padding_,
                              wrapping_sub(wgeom.width, padding_ * 2),
                              wrapping_sub(wgeom.height, padding_ * 2))
          IN IF padding_ * 2 <= wgeom.width /\ padding_ * 2 <= wgeom.height
             THEN rect' = Some(r) /\ wpc' = wpc
             ELSE \/ rect' = rect /\ wpc' = "panic"
                  \/ rect' = Some(r) /\ wpc' = wpc
    /\ wops' = <<wops[2], "draw_borders">>
    /\ UNCHANGED wgeom
    /\ UNCHANGED <<selvars, appvars, inputvars, framevars>>

\* clear_area(): XClearArea over the geometry of the window
clear_area ==
    /\ wpc = "run"
    /\ rect' = Nothing
    /\ wops' = <<wops[2], "clear_area">>
    /\ UNCHANGED <<wgeom, wpc>>
    /\ UNCHANGED <<selvars, appvars, inputvars, framevars>>

\* reset_position(): (x, y) of the geometry set to (0, 0)
reset_position ==
    /\ wpc = "run"
    /\ wgeom' = [wgeom EXCEPT !.x = 0, !.y = 0]
    /\ wops' = <<wops[2], "reset_position">>
    /\ UNCHANGED <<rect, wpc>>
    /\ UNCHANGED <<selvars, appvars, inputvars, framevars>>

WinNext ==
    \/ draw_borders
    \/ clear_area
    \/ reset_position

(***************************************************************************)
(* InputState: check_mouse and check_keys                                  *)
(***************************************************************************)
\* MouseState.button_pressed: one flag per button number, index 0 unused
ButtonStates ==
    {[i \in 0 .. 5 |-> (i = 1 /\ l) \/ (i = 2 /\ m) \/ (i = 3 /\ r)] :
        l \in BOOLEAN, m \in BOOLEAN, r \in BOOLEAN}

\* the key snapshots get_keys() can report (keys in keycode order)
DeviceKeys ==
    { <<>>,
      <<"Escape">>,
      <<"LControl">>,
      <<"D">>,
      <<"A">>,
      <<"LControl", "D">>,
      <<"LControl", "A">>,
      <<"A", "D">>,
      <<"LControl", "A", "D">>,
      <<"Escape", "A">>,
      <<"Escape", "LControl", "D">> }

\* check_mouse, testing the middle button for the right one
check_mouse_middle(mouse) == mouse[1] \/ mouse[2]

\* check_mouse(): mouse[1] || mouse[3]
check_mouse(mouse) == mouse[1] \/ mouse[3]

\* check_keys(): Escape, or LControl and D
check_keys(ks) ==
    Contains(ks, "Escape") \/ (Contains(ks, "LControl") /\ Contains(ks, "D"))

\* the input variables while no input check is modelled
InputIdle ==
    /\ button_pressed = [i \in 0 .. 5 |-> FALSE]
    /\ device_keys = <<>>
    /\ mouse_checked = Nothing
    /\ keys_checked = Nothing

\* InputState::new(): the state of the devices at the call
InputInit ==
    /\ button_pressed \in ButtonStates
    /\ device_keys \in DeviceKeys
    /\ mouse_checked = Nothing
    /\ keys_checked = Nothing

\* a caller evaluates input_state.check_mouse()
call_check_mouse ==
    /\ mouse_checked = Nothing
    /\ mouse_checked' = Some(check_mouse(button_pressed))
    /\ UNCHANGED <<button_pressed, device_keys, keys_checked>>
    /\ UNCHANGED <<selvars, appvars, winvars, framevars>>

\* a caller evaluates input_state.check_keys()
call_check_keys ==
    /\ keys_checked = Nothing
    /\ keys_checked' = Some(check_keys(device_keys))
    /\ UNCHANGED <<button_pressed, device_keys, mouse_checked>>
    /\ UNCHANGED <<selvars, appvars, winvars, framevars>>

InputNext ==
    \/ call_check_mouse
    \/ call_check_keys

(***************************************************************************)
(* Frames: get_frames in make mode, Gif::add_frame, split_gif              *)
(***************************************************************************)
\* the frame variables while no frame operation is modelled
FramesIdle ==
    /\ fpc = "idle"
    /\ fmode = "make"
    /\ gif_frames = <<>>
    /\ images = <<>>
    /\ encoded = <<>>
    /\ dir = FALSE
    /\ files = <<>>
    /\ fformat = "png"
    /\ fresult = "pending"

\* the image files that can be configured, named by their content
ImageIds == 1 .. MaxImages
\* settings.gif.frames: the lists of image files that can be configured
FileLists == UNION {[1 .. n -> ImageIds] : n \in 0 .. MaxImages}
\* the frames the decoder yields for an animation of n frames, in its order
Decoded(n) == [i \in 1 .. n |-> i]
\* the formats a split can be asked to save in
SplitFormats == {"png", "jpg", "gif"}

\* format!("{}", i): the decimal digits of i, most significant first
RECURSIVE Decimal(_)
Decimal(n) == IF n < 10 THEN <<n>> ELSE Decimal(n \div 10) \o <<n % 10>>

\* get_path_with_extension(dir.join(format!("frame_{}", i)), format)
FramePath(i, fmt) == [stem |-> <<"frame_">> \o Decimal(i), extension |-> fmt]

\* Frame::from_rgb_speed(width, height, &image.data, 30)
Frame(image_) == [data |-> image_]

\* add_frame, putting the new frame first
add_frame_first(frames_, image_) == <<Frame(image_)>> \o frames_

\* Gif::add_frame: self.frames.push(Frame::from_rgb_speed(..))
add_frame(frames_, image_) == Append(frames_, Frame(image_))

\* App::start with the make or the split subcommand
FramesInit ==
    /\ fmode \in {"make", "split"}
    /\ fpc = IF fmode = "make" THEN "make" ELSE "decode"
    /\ gif_frames \in IF fmode = "make" THEN FileLists ELSE {<<>>}
    /\ images = <<>>
    /\ encoded = <<>>
    /\ dir \in IF fmode = "make" THEN {FALSE} ELSE BOOLEAN
    /\ files = <<>>
    /\ fformat \in IF fmode = "make" THEN {"gif"} ELSE SplitFormats
    /\ fresult = "pending"

\* get_frames, make: images.push(self.edit_image(path)) for the next path of
\* settings.gif.frames; edit_image panics on a file it cannot read
get_frames_push ==
    /\ fpc = "make"
    /\ Len(images) < Len(gif_frames)
    /\ \E readable \in BOOLEAN :
          IF readable
          THEN /\ images' = Append(images, gif_frames[Len(images) + 1])
               /\ UNCHANGED <<fpc, fresult>>
          ELSE /\ fpc' = "done"
               /\ fresult' = "File not found"
               /\ UNCHANGED images
    /\ UNCHANGED <<fmode, gif_frames, encoded, dir, files, fformat>>
    /\ UNCHANGED <<selvars, appvars, winvars, inputvars>>

\* get_frames, make: (images, fps) is returned; save_gif takes
\* images.first().expect("No frames found to save")
get_frames_return ==
    /\ fpc = "make"
    /\ Len(images) = Len(gif_frames)
    /\ IF images = <<>>
       THEN fpc' = "done" /\ fresult' = "No frames found to save"
       ELSE fpc' = "encode" /\ UNCHANGED fresult
    /\ UNCHANGED <<fmode, gif_frames, images, encoded, dir, files, fformat>>
    /\ UNCHANGED <<selvars, appvars, winvars, inputvars>>

\* the encoder is given the next image: gif.add_frame(image)
gif_add_frame ==
    /\ fpc = "encode"
    /\ Len(encoded) < Len(images)
    /\ encoded' = add_frame(encoded, images[Len(encoded) + 1])
    /\ UNCHANGED <<fpc, fmode, gif_frames, images, dir, files, fformat, fresult>>
    /\ UNCHANGED <<selvars, appvars, winvars, inputvars>>

\* every image has been given to the encoder: the animation is written
gif_save ==
    /\ fpc = "encode"
    /\ Len(encoded) = Len(images)
    /\ fpc' = "done"
    /\ fresult' = "Ok"
    /\ UNCHANGED <<fmode, gif_frames, images, encoded, dir, files, fformat>>
    /\ UNCHANGED <<selvars, appvars, winvars, inputvars>>

\* split_gif: let (frames, fps) = self.edit_gif(input); the decoder panics
\* on an input that is no animation
edit_gif ==
    /\ fpc = "decode"
    /\ \/ /\ \E n \in 0 .. MaxSplit : images' = Decoded(n)
          /\ fpc' = "mkdir"
          /\ UNCHANGED fresult
       \/ /\ fpc' = "done"
          /\ fresult' = "Failed to decode the GIF"
          /\ UNCHANGED images
    /\ UNCHANGED <<fmode, gif_frames, encoded, dir, files, fformat>>
    /\ UNCHANGED <<selvars, appvars, winvars, inputvars>>

\* split_gif: fs::create_dir_all(&self.settings.split.dir)?
create_dir_all ==
    /\ fpc = "mkdir"
    /\ \E ok \in BOOLEAN :
          IF ok
          THEN dir' = TRUE /\ fpc' = "split" /\ UNCHANGED fresult
          ELSE fpc' = "done" /\ fresult' = "Err" /\ UNCHANGED dir
    /\ UNCHANGED <<fmode, gif_frames, images, encoded, files, fformat>>
    /\ UNCHANGED <<selvars, appvars, winvars, inputvars>>

\* split_frame, counting the frames from one
split_frame_from_one ==
    /\ fpc = "split"
    /\ Len(files) < Len(images)
    /\ LET i == Len(files)
           path == FramePath(i + 1, fformat)
       IN \E created \in BOOLEAN :
             IF ~created
             THEN fpc' = "done" /\ fresult' = "Err" /\ UNCHANGED files
             ELSE IF fformat = "gif"
                  THEN /\ files' = Append(files, [path |-> path, image |-> Nothing])
                       /\ fpc' = "done"
                       /\ fresult' = "Failed to get the frames"
                  ELSE /\ files' = Append(files, [path |-> path,
                                                  image |-> Some(images[i + 1])])
                       /\ UNCHANGED <<fpc, fresult>>
    /\ UNCHANGED <<fmode, gif_frames, images, encoded, dir, fformat>>
    /\ UNCHANGED <<selvars, appvars, winvars, inputvars>>

\* split_gif, one iteration of `for i in 0..frames.len()`: the path of the
\* frame, File::create(path)?, save_output((frames.get(i).cloned(), None), ..)
\* (save_gif panics on the frames it is not given, save_image encodes)
split_frame ==
    /\ fpc = "split"
    /\ Len(files) < Len(images)
    /\ LET i == Len(files)
           path == FramePath(i, fformat)
       IN \E created \in BOOLEAN :
             IF ~created
             THEN fpc' = "done" /\ fresult' = "Err" /\ UNCHANGED files
             ELSE IF fformat = "gif"
                  THEN /\ files' = Append(files, [path |-> path, image |-> Nothing])
                       /\ fpc' = "done"
                       /\ fresult' = "Failed to get the frames"
                  ELSE /\ files' = Append(files, [path |-> path,
                                                  image |-> Some(images[i + 1])])
                       /\ UNCHANGED <<fpc, fresult>>
    /\ UNCHANGED <<fmode, gif_frames, images, encoded, dir, fformat>>
    /\ UNCHANGED <<selvars, appvars, winvars, inputvars>>

\* split_gif: the loop is over, Ok(())
split_return ==
    /\ fpc = "split"
    /\ Len(files) = Len(images)
    /\ fpc' = "done"
    /\ fresult' = "Ok"
    /\ UNCHANGED <<fmode, gif_frames, images, encoded, dir, files, fformat>>
    /\ UNCHANGED <<selvars, appvars, winvars, inputvars>>

FramesNext ==
    \/ get_frames_push
    \/ get_frames_return
    \/ gif_add_frame
    \/ gif_save
    \/ edit_gif
    \/ create_dir_all
    \/ split_frame
    \/ split_return

\* the variables of the library while the selection or the application runs
LibIdle == WinIdle /\ InputIdle /\ FramesIdle

(***************************************************************************)
(* App: the capture and record paths                                       *)
(***************************************************************************)
\* a panic of the calling thread: expect() on None or Err
panic(msg) == apc' = "panic" /\ panicked' = msg

\* the selection variables while the application runs
SelIdle ==
    /\ pc = "done"
    /\ keys = <<>>
    /\ root = TRUE
    /\ focus = RootId
    /\ size = Geometry(0, 0)
    /\ border = FALSE
    /\ timeout = 0
    /\ interval = 500
    /\ padding = Padding(0, 0, 0, 0)
    /\ window_padding = padding
    /\ window = get_window
    /\ xid = Nothing
    /\ change_factor = DefaultChange
    /\ reset_area = FALSE
    /\ elapsed = 0
    /\ grabbed = {}
    /\ drawn = {}
    /\ result = "pending"
    /\ reason = "running"
    /\ ticks = 0
    /\ pressed = FALSE

\* the application variables while a window is selected
AppIdle ==
    /\ apc = "idle"
    /\ app_window = FALSE
    /\ format = "gif"
    /\ has_command = FALSE
    /\ flag_keys = FALSE
    /\ user_input = FALSE
    /\ worker = "none"
    /\ wres = "none"
    /\ wframes = 0
    /\ stop = FALSE
    /\ cmd = "idle"
    /\ frames = Nothing
    /\ image = "pending"
    /\ file_created = FALSE
    /\ saved = "none"
    /\ released = 0
    /\ consumed = 0
    /\ spawned = 0
    /\ panicked = ""

\* settings.save.file.format: Gif, one of the formats save_output hands to
\* save_image (Png), one of those its match leaves to the `_` arm
FileFormats == {"gif", "png", "any"}

\* App::new(window, settings) followed by App::start
AppInit ==
    /\ apc = "start"
    /\ app_window \in BOOLEAN
    /\ format \in FileFormats
    /\ has_command \in BOOLEAN
    /\ flag_keys \in BOOLEAN
    /\ user_input \in BOOLEAN
    /\ worker = "none"
    /\ wres = "none"
    /\ wframes = 0
    /\ stop = FALSE
    /\ cmd = "idle"
    /\ frames = Nothing
    /\ image = "pending"
    /\ file_created = FALSE
    /\ saved = "none"
    /\ released = 0
    /\ consumed = 0
    /\ spawned = 0
    /\ panicked = ""
    /\ SelIdle
    /\ LibIdle

\* get_app_output: get_frames (record) for the GIF format, get_image (capture)
\* for the others
get_app_output ==
    /\ apc = "start"
    /\ apc' = IF format = "gif" THEN "record" ELSE "capture"
    /\ UNCHANGED <<app_window, format, has_command, flag_keys, user_input,
                   worker, wres, wframes, stop, cmd, frames, image,
                   file_created, saved, released, consumed, spawned,
                   panicked>>
    /\ UNCHANGED <<selvars, libvars>>

\* record, asking for the result of the worker before the command has run
record_get_before_command ==
    /\ apc = "record"
    /\ IF ~app_window
       THEN panic("Failed to get the window") /\ UNCHANGED <<worker, spawned>>
       ELSE IF has_command
            THEN /\ worker' = "running"
                 /\ spawned' = spawned + 1
                 /\ apc' = "get"
                 /\ UNCHANGED panicked
            ELSE /\ apc' = "sync"
                 /\ UNCHANGED <<worker, spawned, panicked>>
    /\ UNCHANGED <<app_window, format, has_command, flag_keys, user_input,
                   wres, wframes, stop, cmd, frames, image, file_created,
                   saved, released, consumed>>
    /\ UNCHANGED <<selvars, libvars>>

\* record: Recorder::new(self.window.expect(..)); with a command
\* recorder.record_async(), without one recorder.record_sync(..)
record ==
    /\ apc = "record"
    /\ IF ~app_window
       THEN panic("Failed to get the window") /\ UNCHANGED <<worker, spawned>>
       ELSE IF has_command
            THEN /\ worker' = "running"
                 /\ spawned' = spawned + 1
                 /\ apc' = "execute"
                 /\ UNCHANGED panicked
            ELSE /\ apc' = "sync"
                 /\ UNCHANGED <<worker, spawned, panicked>>
    /\ UNCHANGED <<app_window, format, has_command, flag_keys, user_input,
                   wres, wframes, stop, cmd, frames, image, file_created,
                   saved, released, consumed>>
    /\ UNCHANGED <<selvars, libvars>>

\* capture: self.window.expect(..); with a command the image thread is
\* spawned, without one the image is taken by the caller
capture ==
    /\ apc = "capture"
    /\ IF ~app_window
       THEN panic("Failed to get the window") /\ UNCHANGED <<worker, spawned, image>>
       ELSE IF has_command
            THEN /\ worker' = "running"
                 /\ spawned' = spawned + 1
                 /\ apc' = "execute"
                 /\ UNCHANGED <<panicked, image>>
            ELSE /\ \E img \in {"some", "absent"} : image' = img
                 /\ apc' = "release"
                 /\ UNCHANGED <<worker, spawned, panicked>>
    /\ UNCHANGED <<app_window, format, has_command, flag_keys, user_input,
                   wres, wframes, stop, cmd, frames, file_created, saved,
                   released, consumed>>
    /\ UNCHANGED <<selvars, libvars>>

\* get_command().expect(..).execute(): the external command starts
execute ==
    /\ apc = "execute"
    /\ cmd' = "running"
    /\ apc' = "executing"
    /\ UNCHANGED <<app_window, format, has_command, flag_keys, user_input,
                   worker, wres, wframes, stop, frames, image, file_created,
                   saved, released, consumed, spawned, panicked>>
    /\ UNCHANGED <<selvars, libvars>>

\* execute_expect, dropping the result of execute() unchecked
execute_unchecked ==
    /\ apc = "executing"
    /\ \E ok \in BOOLEAN : cmd' = IF ok THEN "done" ELSE "failed"
    /\ apc' = IF format = "gif" THEN "get" ELSE "join"
    /\ UNCHANGED <<app_window, format, has_command, flag_keys, user_input,
                   worker, wres, wframes, stop, frames, image, file_created,
                   saved, released, consumed, spawned, panicked>>
    /\ UNCHANGED <<selvars, libvars>>

\* execute() returns; .expect("Failed to run the command")
execute_expect ==
    /\ apc = "executing"
    /\ \E ok \in BOOLEAN :
          IF ok
          THEN /\ cmd' = "done"
               /\ apc' = IF format = "gif" THEN "get" ELSE "join"
               /\ UNCHANGED panicked
          ELSE /\ cmd' = "failed"
               /\ panic("Failed to run the command")
    /\ UNCHANGED <<app_window, format, has_command, flag_keys, user_input,
                   worker, wres, wframes, stop, frames, image, file_created,
                   saved, released, consumed, spawned>>
    /\ UNCHANGED <<selvars, libvars>>

\* record_get, returning the frames captured so far without joining the
\* worker
record_get_no_join ==
    /\ apc = "get"
    /\ IF worker = "running"
       THEN /\ stop' = TRUE
            /\ consumed' = consumed + 1
            /\ frames' = Some(wframes)
            /\ apc' = "release"
            /\ UNCHANGED worker
       ELSE /\ worker' = "joined"
            /\ consumed' = consumed + 1
            /\ frames' = Some(0)
            /\ apc' = "release"
            /\ UNCHANGED stop
    /\ UNCHANGED <<app_window, format, has_command, flag_keys, user_input,
                   wres, wframes, cmd, image, file_created, saved, released,
                   spawned, panicked>>
    /\ UNCHANGED <<selvars, libvars>>

\* record.get(): the stop signal is sent to the worker; None when the
\* worker has ended before (None => Vec::new())
record_get ==
    /\ apc = "get"
    /\ IF worker = "running"
       THEN /\ stop' = TRUE
            /\ apc' = "join"
            /\ UNCHANGED <<worker, consumed, frames>>
       ELSE /\ worker' = "joined"
            /\ consumed' = consumed + 1
            /\ frames' = Some(0)
            /\ apc' = "release"
            /\ UNCHANGED stop
    /\ UNCHANGED <<app_window, format, has_command, flag_keys, user_input,
                   wres, wframes, cmd, image, file_created, saved, released,
                   spawned, panicked>>
    /\ UNCHANGED <<selvars, libvars>>

\* record.get() joins the worker: Some(frames) =>
\* frames.expect("Failed to retrieve the frames")
record_join ==
    /\ apc = "join"
    /\ format = "gif"
    /\ worker = "finished"
    /\ worker' = "joined"
    /\ consumed' = consumed + 1
    /\ IF wres = "ok"
       THEN frames' = Some(wframes) /\ apc' = "release" /\ UNCHANGED panicked
       ELSE panic("Failed to retrieve the frames") /\ UNCHANGED frames
    /\ UNCHANGED <<app_window, format, has_command, flag_keys, user_input,
                   wres, wframes, stop, cmd, image, file_created, saved,
                   released, spawned>>
    /\ UNCHANGED <<selvars, libvars>>

\* image_thread.join().expect("Failed to join the image thread")
capture_join ==
    /\ apc = "join"
    /\ format # "gif"
    /\ worker = "finished"
    /\ worker' = "joined"
    /\ consumed' = consumed + 1
    /\ IF wres = "err"
       THEN panic("Failed to join the image thread") /\ UNCHANGED image
       ELSE image' = wres /\ apc' = "release" /\ UNCHANGED panicked
    /\ UNCHANGED <<app_window, format, has_command, flag_keys, user_input,
                   wres, wframes, stop, cmd, frames, file_created, saved,
                   released, spawned>>
    /\ UNCHANGED <<selvars, libvars>>

\* the worker of record_async captures one more frame
worker_capture ==
    /\ apc # "panic"
    /\ worker = "running"
    /\ format = "gif"
    /\ wframes < MaxFrames
    /\ wframes' = wframes + 1
    /\ UNCHANGED <<apc, app_window, format, has_command, flag_keys,
                   user_input, worker, wres, stop, cmd, frames, image,
                   file_created, saved, released, consumed, spawned,
                   panicked>>
    /\ UNCHANGED <<selvars, libvars>>

\* the worker of record_async sees the stop signal and returns its frames
worker_stop ==
    /\ apc # "panic"
    /\ worker = "running"
    /\ format = "gif"
    /\ stop
    /\ worker' = "finished"
    /\ wres' = "ok"
    /\ UNCHANGED <<apc, app_window, format, has_command, flag_keys,
                   user_input, wframes, stop, cmd, frames, image,
                   file_created, saved, released, consumed, spawned,
                   panicked>>
    /\ UNCHANGED <<selvars, libvars>>

\* the worker thread panics: its terminal value is a failure
worker_fail ==
    /\ apc # "panic"
    /\ worker = "running"
    /\ worker' = "finished"
    /\ wres' = "err"
    /\ UNCHANGED <<apc, app_window, format, has_command, flag_keys,
                   user_input, wframes, stop, cmd, frames, image,
                   file_created, saved, released, consumed, spawned,
                   panicked>>
    /\ UNCHANGED <<selvars, libvars>>

\* the image thread: window.show_countdown(); window.get_image()
image_thread ==
    /\ apc # "panic"
    /\ worker = "running"
    /\ format # "gif"
    /\ worker' = "finished"
    /\ \E img \in {"some", "absent"} : wres' = img
    /\ UNCHANGED <<apc, app_window, format, has_command, flag_keys,
                   user_input, wframes, stop, cmd, frames, image,
                   file_created, saved, released, consumed, spawned,
                   panicked>>
    /\ UNCHANGED <<selvars, libvars>>

\* sync_stop, the input state passed whatever the keys flag is
sync_stop_any_input ==
    user_input \/ wframes >= Duration

\* record_sync: the stop conditions of the synchronous loop, the input only
\* when an input state was passed (settings.record.flag.keys)
sync_stop ==
    (flag_keys /\ user_input) \/ wframes >= Duration

\* record_sync: one more frame is captured
sync_capture ==
    /\ apc = "sync"
    /\ wframes = 0 \/ ~sync_stop
    /\ wframes < MaxFrames
    /\ wframes' = wframes + 1
    /\ UNCHANGED <<apc, app_window, format, has_command, flag_keys,
                   user_input, worker, wres, stop, cmd, frames, image,
                   file_created, saved, released, consumed, spawned,
                   panicked>>
    /\ UNCHANGED <<selvars, libvars>>

\* record_sync returns the accumulated frames
record_sync ==
    /\ apc = "sync"
    /\ wframes > 0
    /\ sync_stop
    /\ frames' = Some(wframes)
    /\ apc' = "release"
    /\ UNCHANGED <<app_window, format, has_command, flag_keys, user_input,
                   worker, wres, wframes, stop, cmd, image, file_created,
                   saved, released, consumed, spawned, panicked>>
    /\ UNCHANGED <<selvars, libvars>>

\* get_app_output: if let Some(window) = self.window { window.release() }
release ==
    /\ apc = "release"
    /\ released' = IF app_window THEN released + 1 ELSE released
    /\ apc' = "create"
    /\ UNCHANGED <<app_window, format, has_command, flag_keys, user_input,
                   worker, wres, wframes, stop, cmd, frames, image,
                   file_created, saved, consumed, spawned, panicked>>
    /\ UNCHANGED <<selvars, libvars>>

\* start: File::create(&self.settings.save.file.path)?
create ==
    /\ apc = "create"
    /\ file_created' = TRUE
    /\ apc' = "save"
    /\ UNCHANGED <<app_window, format, has_command, flag_keys, user_input,
                   worker, wres, wframes, stop, cmd, frames, image, saved,
                   released, consumed, spawned, panicked>>
    /\ UNCHANGED <<selvars, libvars>>

\* save_output: save_gif for the GIF format (images.first().expect(..)),
\* save_image for the image formats (image.expect(..)), nothing for a format
\* of the `_` arm; Ok(()) unless a call has panicked
save_output ==
    /\ apc = "save"
    /\ IF format = "gif"
       THEN IF frames = Nothing \/ frames = Some(0)
            THEN panic("No frames found to save") /\ UNCHANGED saved
            ELSE saved' = "gif" /\ apc' = "done" /\ UNCHANGED panicked
       ELSE IF format = "any"
            THEN apc' = "done" /\ UNCHANGED <<saved, panicked>>
            ELSE IF image # "some"
                 THEN panic("Failed to get the image") /\ UNCHANGED saved
                 ELSE saved' = "image" /\ apc' = "done" /\ UNCHANGED panicked
    /\ UNCHANGED <<app_window, format, has_command, flag_keys, user_input,
                   worker, wres, wframes, stop, cmd, frames, image,
                   file_created, released, consumed, spawned>>
    /\ UNCHANGED <<selvars, libvars>>

\* the user gives or withdraws the input that stops a recording
input ==
    /\ apc \notin {"idle", "done", "panic"}
    /\ user_input' = ~user_input
    /\ UNCHANGED <<apc, app_window, format, has_command, flag_keys, worker,
                   wres, wframes, stop, cmd, frames, image, file_created,
                   saved, released, consumed, spawned, panicked>>
    /\ UNCHANGED <<selvars, libvars>>

AppNext ==
    \/ get_app_output
    \/ record
    \/ capture
    \/ execute
    \/ execute_expect
    \/ record_get
    \/ record_join
    \/ capture_join
    \/ worker_capture
    \/ worker_stop
    \/ worker_fail
    \/ image_thread
    \/ sync_capture
    \/ record_sync
    \/ release
    \/ create
    \/ save_output
    \/ input

\* the application run on the window selected
AppSpec == AppInit /\ [][AppNext]_vars

(***************************************************************************)
(* Specifications                                                          *)
(***************************************************************************)
Init == SelInit /\ AppIdle /\ LibIdle
Next == SelNext
\* the selection of a window
Spec == Init /\ [][Next]_vars

\* a step of the thread that runs select_window: it is never suspended for
\* ever, each sleep lasting the poll interval
SelStep ==
    \/ select_head
    \/ update_area
    \/ select_cancel
    \/ select_timeout
    \/ select_grab
    \/ select_continue
    \/ select_exit
\* a selection with a border, no padding configured and no size requested,
\* polled every second, or twice a second with the timeout 0
LiveStart ==
    /\ Init
    /\ border
    /\ padding = Padding(0, 0, 0, 0)
    /\ size = Geometry(0, 0)
    /\ interval = MsPerSec \/ timeout = 0
\* the selection of a window by a thread that keeps running
LiveSpec == LiveStart /\ [][Next]_vars /\ WF_vars(SelStep)

\* the operations on a window
WinStart == WinInit /\ SelIdle /\ AppIdle /\ InputIdle /\ FramesIdle
WinSpec == WinStart /\ [][WinNext]_vars

\* the frames of the make and the split subcommands
FramesStart == FramesInit /\ SelIdle /\ AppIdle /\ WinIdle /\ InputIdle
FramesSpec == FramesStart /\ [][FramesNext]_vars

\* the checks of the input state
InputStart == InputInit /\ SelIdle /\ AppIdle /\ WinIdle /\ FramesIdle
InputSpec == InputStart /\ [][InputNext]_vars

\* the paddings, requested sizes and window geometries update_padding is
\* called with
PadPaddings == {Padding(0, 0, 0, 0), Padding(1, 0, 0, 4), Padding(2, 3, 5, 7)}
PadSizes == {Geometry(w, h) : w \in {0, 10, 12}, h \in {0, 10, 12}}
PadGeoms == {GeometryAt(0, 0, w, h) : w \in {0, 8, 12}, h \in {0, 8, 12}}

\* a display whose settings hold a padding, before a call of update_padding
PadStart ==
    /\ pc = "update_padding"
    /\ keys = <<>>
    /\ root = TRUE
    /\ focus = RootId
    /\ size \in PadSizes
    /\ border = FALSE
    /\ timeout = 0
    /\ interval = 500
    /\ padding \in PadPaddings
    /\ window_padding = padding
    /\ window = get_window
    /\ xid = Nothing
    /\ change_factor = DefaultChange
    /\ reset_area = FALSE
    /\ elapsed = 0
    /\ grabbed = {}
    /\ drawn = {}
    /\ result = "pending"
    /\ reason = "running"
    /\ ticks = 0
    /\ pressed = FALSE
    /\ wgeom \in PadGeoms
    /\ rect = Nothing
    /\ wops = <<"none", "new">>
    /\ wpc = "idle"
    /\ AppIdle
    /\ InputIdle
    /\ FramesIdle

\* display.update_padding(size, window_geometry)
call_update_padding ==
    /\ pc = "update_padding"
    /\ padding' = update_padding(padding, size, wgeom)
    /\ pc' = "updated"
    /\ UNCHANGED <<keys, focus, root, size, border, timeout, interval,
                   window_padding, window, xid, change_factor, reset_area,
                   elapsed, grabbed, drawn, result, reason, ticks, pressed>>
    /\ UNCHANGED <<appvars, libvars>>

PadNext == call_update_padding
\* one call of update_padding
PadSpec == PadStart /\ [][PadNext]_vars

(***************************************************************************)
(* Claims about select_window                                              *)
(***************************************************************************)
\* the capture area the display settings give the window of this tick
CaptureArea == with_padding(WinGeom(window.xid), padding)
\* the elapsed time exceeds the configured timeout
TimeoutExceeded == elapsed > timeout * MsPerSec

\* C1: whenever select_window has returned, by confirmation, cancel or
\* timeout, no window holds a key grab taken during the loop and no border
\* is left on the display.
C1_GrabsReleasedBorderCleared ==
    pc = "done" => (grabbed = {} /\ drawn = {})

\* C2 as stated: the action key never prevails over a pressed cancel key or
\* an exceeded timeout: whenever the loop is left by the action key with a
\* window selected, no cancel key is pressed and the timeout is not
\* exceeded.
C2_CancelTimeoutBeforeAction ==
    [][(pc = "head" /\ pc' = "exit" /\ xid # Nothing)
          => (~check_cancel_keys(keys) /\ ~(as_secs(elapsed) > timeout))]_vars

\* C2 as amended: the action key is tested first, at the head of every tick,
\* and ends the loop with the tracked window whatever the cancel keys and
\* the elapsed time are; only when it is not pressed there does the body run,
\* and in the body cancel comes before timeout, and both before going on.
C2_ExitPriority ==
    [][/\ (pc = "head" /\ pc' # pc)
            => /\ (pc' = "exit") <=> check_action_keys(keys)
               /\ pc' = "exit" => (reason' = "action" /\ xid' = xid)
       /\ (pc = "check" /\ pc' # pc)
            => /\ check_cancel_keys(keys)
                    => (pc' = "exit" /\ reason' = "cancel" /\ xid' = Nothing)
               /\ (~check_cancel_keys(keys) /\ as_secs(elapsed) > timeout)
                    => (pc' = "exit" /\ reason' = "timeout" /\ xid' = Nothing)
               /\ (~check_cancel_keys(keys) /\ ~(as_secs(elapsed) > timeout))
                    => pc' = "head"]_vars

\* C2, the case: the loop was left by the action key with a window selected
\* while a cancel key was pressed and the timeout was exceeded.
C2_ActionOverCancel ==
    /\ pc = "done"
    /\ reason = "action"
    /\ result = "some"
    /\ check_cancel_keys(keys)
    /\ as_secs(elapsed) > timeout

\* C3: with timeout = 0 and no key pressed select_window returns None
\* without entering the loop body more than once.
C3_TimeoutZeroOneTick ==
    (timeout = 0 /\ ~pressed)
        => (ticks <= 1 /\ (pc = "done" => result = "none"))

\* C4: the loop is left with None in the first tick in which the elapsed
\* time exceeds the timeout, and once it has exceeded the timeout no padding
\* is updated, no key is grabbed and no further tick is started.
C4_AbortOnceExceeded ==
    [][(TimeoutExceeded /\ pc \in {"area", "check"})
          => /\ padding' = padding
             /\ grabbed' = grabbed
             /\ (pc = "check" /\ pc' # pc) => (pc' = "exit" /\ xid' = Nothing)]_vars

\* C5 as stated: a loop ended by the action key returns Some(window), a loop
\* ended by the cancel keys or the timeout returns None.
C5_SomeIffAction ==
    pc = "done"
        => /\ reason = "action" => result = "some"
           /\ reason \in {"cancel", "timeout"} => result = "none"

\* C5 as amended: a loop ended by the action key returns Some(window), the
\* window of the last tick, if the body ran at least once, and None if the
\* action key was pressed before the first tick; a loop ended by the cancel
\* keys or the timeout returns None.
C5_ResultByReason ==
    pc = "done"
        => /\ (reason = "action" /\ ticks > 0)
                => (result = "some" /\ xid = Some(window.xid))
           /\ (reason = "action" /\ ticks = 0) => result = "none"
           /\ reason \in {"cancel", "timeout"} => result = "none"
           /\ reason # "running"

\* C5, the case: the action key ended the loop after some ticks.
C5_ConfirmedAfterTicks ==
    pc = "done" /\ reason = "action" /\ ticks > 1 /\ result = "some"

\* C10: after any padding adjustments made during the selection the capture
\* area of the tracked window has width > 0 and height > 0.
C10_AreaPositive ==
    xid = Some(window.xid) => (CaptureArea.width > 0 /\ CaptureArea.height > 0)

(***************************************************************************)
(* Claims about the capture and record paths of App                        *)
(***************************************************************************)
\* control has left record() or capture(), by a return or by a panic
LeftCall == apc \in {"panic", "release", "create", "save", "done"}

\* C6: without a window the capture and record paths end without a panic
\* and without saving anything.
C6_NoWindowNotFatal ==
    ~app_window => (apc # "panic" /\ saved = "none")

\* C7: in command-driven mode the background thread has been joined and its
\* terminal value taken exactly once when control leaves the call.
C7_WorkerJoinedOnReturn ==
    (spawned > 0 /\ LeftCall) => (worker = "joined" /\ consumed = 1)

\* C8: command-driven recording spawns exactly one worker, before the
\* command starts; the stop signal is sent and the result is taken only
\* after the command has run to completion; and the worker ends with its
\* frames only on the stop signal, whatever the user input and the duration.
C8_WorkerOrder ==
    (format = "gif" /\ has_command)
        => /\ spawned <= 1
           /\ cmd # "idle" => spawned = 1
           /\ stop => cmd = "done"
           /\ consumed > 0 => cmd = "done"
           /\ (worker \in {"finished", "joined"} /\ wres = "ok") => stop

\* C8, the case: the worker was stopped and joined after the command, with
\* the stop input given and more frames than the duration of a recording.
C8_StoppedAfterCommand ==
    /\ format = "gif"
    /\ has_command
    /\ cmd = "done"
    /\ worker = "joined"
    /\ wres = "ok"
    /\ user_input
    /\ wframes > Duration
    /\ frames = Some(wframes)

\* C9: a failure to execute the command aborts the operation: nothing is
\* returned to the caller and nothing is written to the output.
C9_CommandFailureFatal ==
    cmd = "failed"
        => /\ apc = "panic"
           /\ panicked = "Failed to run the command"
           /\ frames = Nothing
           /\ image = "pending"
           /\ ~file_created
           /\ saved = "none"

\* C9, the case: the command failed after the worker had captured frames.
C9_FailedWithFrames ==
    cmd = "failed" /\ wframes > 0

(***************************************************************************)
(* Claims about update_area                                                *)
(***************************************************************************)
\* the step of select_window that is one call of update_area
AdjustStep == pc = "area" /\ pc' = "check"
\* the area of the window of this tick is larger than n x n
AreaAbove(n) == Area(window).height > n /\ Area(window).width > n

C12_PlainDigitSetsStep ==
    [][(AdjustStep /\ keys = <<"Key8">>) => change_factor' = 8]_vars

\* C12 as amended: a digit key pressed together with LAlt sets the step to
\* that digit and leaves the padding alone, a digit key pressed alone
\* changes nothing, the step changes in no other way, and an increase or a
\* decrease made later changes its side by exactly that step.
C12_AltDigitSetsStep ==
    [][/\ (AdjustStep /\ keys = <<"Key8", "LAlt">>)
            => (change_factor' = 8 /\ padding' = padding)
       /\ (AdjustStep /\ keys = <<"Key8">>)
            => (change_factor' = change_factor /\ padding' = padding)
       /\ change_factor' # change_factor
            => (AdjustStep /\ keys = <<"Key8", "LAlt">>)
       /\ (AdjustStep /\ keys = <<"LAlt", "Left">> /\ padding' # padding)
            => padding'.right = padding.right + change_factor
       /\ (AdjustStep /\ keys = <<"LControl", "LAlt", "Right">> /\ padding' # padding)
            => padding'.right = padding.right - change_factor]_vars

\* C12, the case: the step was set to 8 and a later increase added 8.
C12_IncreasedByNewStep ==
    /\ pc = "check"
    /\ keys = <<"LAlt", "Left">>
    /\ change_factor = 8
    /\ padding.right = window.pad.right + 8

\* the tick in which a requested reset is carried out
ResetStep == pc = "check" /\ reset_area /\ pc' = "head"

\* C13 as stated: the reset restores the four sides to the configured
\* values, whatever was adjusted before.
C13_ResetToConfigured ==
    [][ResetStep => padding' = window_padding]_vars

\* C13 as amended: R+LAlt requests the reset; unless the tick ends the
\* selection by cancel or timeout, the reset restores the configured padding
\* when no selection size is requested, and otherwise the padding that
\* yields the requested size: top and left 0, right and bottom the window's
\* width and height minus the requested ones, 0 where the window is smaller.
C13_ResetToInitial ==
    [][/\ (AdjustStep /\ keys = <<"R", "LAlt">>) => (reset_area' /\ padding' = padding)
       /\ (pc = "check" /\ reset_area /\ pc' # pc)
            => \/ pc' = "exit" /\ xid' = Nothing /\ padding' = padding
               \/ /\ pc' = "head"
                  /\ padding' =
                        IF size = Geometry(0, 0) THEN window_padding
                        ELSE LET g == WinGeom(window.xid)
                             IN Padding(0,
                                        IF g.width >= size.width
                                        THEN g.width - size.width ELSE 0,
                                        IF g.height >= size.height
                                        THEN g.height - size.height ELSE 0,
                                        0)]_vars

\* C13, the case: a reset is requested in a tick after the padding has been
\* adjusted away from its configured value, and the tick goes on.
C13_ResetAfterAdjustment ==
    /\ pc = "check"
    /\ reset_area
    /\ size = Geometry(0, 0)
    /\ padding # window_padding
    /\ ~check_cancel_keys(keys)
    /\ ~(as_secs(elapsed) > timeout)

\* the pressed keys are a Shift+Alt combination
ShiftAltKeys ==
    Len(keys) = 3 /\ Contains(keys, "LShift") /\ Contains(keys, "LAlt")

\* C19 as stated: an adjustment made without Shift is applied only with the
\* area above 5x5, one made with Shift+Alt only with the area above 10x10.
C19_GuardOnEveryAdjustment ==
    [][(AdjustStep /\ padding' # padding)
          => IF ShiftAltKeys THEN AreaAbove(MinAreaShift) ELSE AreaAbove(MinArea)]_vars

\* C19 as amended: an Alt increase is applied only with the area above 5x5
\* and a Shift+Alt adjustment only with the area above 10x10; below the
\* guard they leave the padding unchanged; a Ctrl+Alt decrease has no guard.
C19_GuardOnIncreaseAndShift ==
    [][(AdjustStep /\ padding' # padding)
          => /\ Len(keys) = 2 => AreaAbove(MinArea)
             /\ ShiftAltKeys => AreaAbove(MinAreaShift)]_vars

\* C19, the case: a Ctrl+Alt decrease was applied with the area not above
\* 5x5.
C19_DecreaseBelowGuard ==
    /\ pc = "check"
    /\ keys = <<"LControl", "LAlt", "Right">>
    /\ ~AreaAbove(MinArea)
    /\ padding.right < window.pad.right

\* C20: the adjustments are saturating: a decrease by more than the value
\* gives 0, an increase past the largest value gives the largest value.
C20_SaturatingAdjustments ==
    [][AdjustStep =>
        /\ keys = <<"LControl", "LAlt", "Left">>
              => padding'.left = saturating_sub(padding.left, change_factor)
        /\ keys = <<"LControl", "LAlt", "Right">>
              => padding'.right = saturating_sub(padding.right, change_factor)
        /\ (keys = <<"LAlt", "Left">> /\ AreaAbove(MinArea))
              => padding'.right =
                    IF padding.right + change_factor <= ValueMax
                    THEN padding.right + change_factor ELSE ValueMax]_vars

(***************************************************************************)
(* Claims about Window and InputState                                      *)
(***************************************************************************)
\* C14: drawing the border and clearing it leave the stored geometry
\* {x, y, width, height} of the window as it was.
C14_BorderKeepsGeometry ==
    [][wops'[2] \in {"draw_borders", "clear_area"} => wgeom' = wgeom]_vars

\* C14, the case: a border inset by a positive padding was drawn on a window
\* of positive width and height moved from the origin, and then cleared.
C14_DrawnThenCleared ==
    /\ wops = <<"draw_borders", "clear_area">>
    /\ rect = Nothing
    /\ wgeom = GeometryAt(3, 3, 8, 8)

\* C21: on a window of positive width and height and with any border
\* padding, draw_borders returns and the rectangle it draws is inset by the
\* padding on every side: its width and height are the window's minus twice
\* the padding, neither negative nor wrapped around.
C21_BorderInsetExact ==
    (wops[2] = "draw_borders" /\ wgeom.width > 0 /\ wgeom.height > 0)
        => /\ wpc = "run"
           /\ rect # Nothing
           /\ LET r == rect[1]
                  p == r.x - wgeom.x
              IN /\ r.y - wgeom.y = p
                 /\ r.width + 2 * p = wgeom.width
                 /\ r.height + 2 * p = wgeom.height

\* the keys of the snapshot, as a set
PressedKeys == {device_keys[i] : i \in DOMAIN device_keys}

\* C18: check_keys is true exactly when Escape is pressed or LControl and D
\* are both pressed; check_mouse is true exactly when the left (1) or the
\* right (3) button is pressed; with nothing pressed both are false.
C18_CancelKeysAndButtons ==
    /\ keys_checked # Nothing
          => (keys_checked = Some(TRUE)
                <=> ("Escape" \in PressedKeys \/ {"LControl", "D"} \subseteq PressedKeys))
    /\ mouse_checked # Nothing
          => (mouse_checked = Some(FALSE)
                <=> (~button_pressed[1] /\ ~button_pressed[3]))
    /\ (PressedKeys = {} /\ keys_checked # Nothing) => keys_checked = Some(FALSE)
    /\ ((\A i \in DOMAIN button_pressed : ~button_pressed[i]) /\ mouse_checked # Nothing)
          => mouse_checked = Some(FALSE)

\* C18, the case: LControl and D are pressed and only the right button is,
\* and both checks have answered true.
C18_ControlDAndRightButton ==
    /\ device_keys = <<"LControl", "D">>
    /\ keys_checked = Some(TRUE)
    /\ button_pressed[3] /\ ~button_pressed[1]
    /\ mouse_checked = Some(TRUE)

(***************************************************************************)
(* Claims about the frames                                                 *)
(***************************************************************************)
\* the split has returned Ok(())
SplitOk == fmode = "split" /\ fpc = "done" /\ fresult = "Ok"
\* one file per frame, in frame order, each holding its frame
OneFilePerFrame ==
    /\ Len(files) = Len(images)
    /\ \A i \in 1 .. Len(files) : files[i].image = Some(images[i])

\* C15 as stated: the directory exists before any file is written, and a
\* split of N frames leaves exactly N files, one per frame in frame order,
\* with the requested extension and with names made of the zero-padded index
\* of the frame: distinct and of equal length.
C15_ZeroPaddedNames ==
    /\ files # <<>> => dir
    /\ SplitOk
          => /\ OneFilePerFrame
             /\ \A i \in 1 .. Len(files) : files[i].path.extension = fformat
             /\ \A i, j \in 1 .. Len(files) :
                   /\ i # j => files[i].path # files[j].path
                   /\ Len(files[i].path.stem) = Len(files[j].path.stem)

\* C15 as amended: the directory exists before any file is written, and a
\* split of N frames that returns Ok leaves exactly N files, one per frame
\* in frame order, the file of the frame of index i (from 0) named frame_
\* followed by the decimal digits of i, without padding, with the requested
\* extension: the names are distinct.
C15_PlainIndexNames ==
    /\ files # <<>> => dir
    /\ SplitOk
          => /\ OneFilePerFrame
             /\ \A i \in 1 .. Len(files) :
                   /\ files[i].path.extension = fformat
                   /\ files[i].path.stem =
                         IF i - 1 < 10 THEN <<"frame_", i - 1>>
                         ELSE <<"frame_", (i - 1) \div 10, (i - 1) % 10>>
             /\ \A i, j \in 1 .. Len(files) : i # j => files[i].path # files[j].path

\* C15, the case: an animation of more than ten frames was split into PNG
\* files.
C15_SplitMoreThanTen ==
    SplitOk /\ fformat = "png" /\ Len(files) > 10

\* C17: the frames keep their order at every stage: the images of the make
\* mode are those of the configured list, in its order; the encoder holds
\* the frames it was given in the order of the images, each added at the
\* end; the i-th file of a split holds the i-th frame.
C17_FramesKeepOrder ==
    /\ fmode = "make"
          => /\ Len(images) <= Len(gif_frames)
             /\ \A i \in 1 .. Len(images) : images[i] = gif_frames[i]
    /\ Len(encoded) <= Len(images)
    /\ \A i \in 1 .. Len(encoded) : encoded[i].data = images[i]
    /\ Len(files) <= Len(images)
    /\ \A i \in 1 .. Len(files) :
          files[i].image # Nothing => files[i].image = Some(images[i])

\* C17, the case: a list of three files that is not sorted was made into an
\* animation.
C17_UnsortedListEncoded ==
    /\ fmode = "make"
    /\ fresult = "Ok"
    /\ gif_frames = <<2, 1, 3>>
    /\ encoded = <<Frame(2), Frame(1), Frame(3)>>

C22_InputStopsOnlyWhenEnabled ==
    [][(apc = "sync" /\ apc' # "sync" /\ ~flag_keys)
          => (wframes >= Duration /\ frames' = Some(wframes))]_vars

\* C22, the case: with the keys flag disabled the stop input is given while
\* the recording has a frame and its duration has not elapsed.
C22_InputDuringRecording ==
    /\ apc = "sync"
    /\ ~flag_keys
    /\ user_input
    /\ wframes > 0
    /\ wframes < Duration

\* C27: a recording that yields no frame, as when the asynchronous worker
\* delivers no result, ends the run normally: no GIF is encoded or saved and
\* the calling thread does not fail.
C27_EmptyRecordingEndsNormally ==
    (format = "gif" /\ frames = Some(0))
        => (apc # "panic" /\ saved = "none")

\* C28: save_output returns Ok only if the output was encoded to the sink:
\* whatever the configured format, a run that ends without a failure has
\* written an image or a GIF to the file it created.
C28_OkOnlyIfEncoded ==
    apc = "done" => (file_created /\ saved # "none")

(***************************************************************************)
(* Claims about the window tracked by select_window                        *)
(***************************************************************************)
\* C23: the window returned on confirmation carries the padding in force in
\* the display settings when the loop is left, and so the capture area those
\* settings give: what the last tick adjusted, reset or derived from the
\* requested size is part of it.
C23_ReturnedWindowCurrent ==
    (pc = "done" /\ reason = "action" /\ result = "some")
        => (window.pad = padding /\ Area(window) = CaptureArea)

\* C24: until select_window returns, at most one window holds a key grab
\* and the tracked window id names exactly the window that holds it: no id,
\* no grab; an id, the grab on that window and on no other.
C24_TrackedWindowHoldsGrab ==
    pc # "done"
        => /\ Cardinality(grabbed) <= 1
           /\ grabbed = IF xid = Nothing THEN {} ELSE {xid[1]}

\* the most ticks a selection can take: the first tick whose elapsed time,
\* in whole seconds, exceeds the timeout
TickBound == ((timeout + 1) * MsPerSec + interval - 1) \div interval + 1

\* C25: select_window terminates, whatever keys are pressed and whatever
\* window has the focus from tick to tick: the loop body is entered at most
\* TickBound times and the call returns.
C25_SelectTerminates ==
    /\ [](ticks <= TickBound)
    /\ <>(pc = "done")

\* C25, the case: the selection ran for the largest number of ticks, with
\* keys pressed on the way, and was ended by the timeout.
C25_EndedByTimeout ==
    /\ pc = "done"
    /\ reason = "timeout"
    /\ pressed
    /\ timeout = MaxTimeout
    /\ ticks = TickBound
    /\ ticks > 2

\* the window of this tick is not the tracked one: the target has changed
\* since the previous tick, or this is the first tick
TargetChanged == pc = "check" /\ xid # Some(window.xid)

C29_PaddingFromSize ==
    pc = "updated"
        => IF size.width = 0 /\ size.height = 0
           THEN padding = window_padding
           ELSE /\ padding.top = 0
                /\ padding.left = 0
                /\ padding.right =
                      IF size.width > wgeom.width THEN 0
                      ELSE wgeom.width - size.width
                /\ padding.bottom =
                      IF size.height > wgeom.height THEN 0
                      ELSE wgeom.height - size.height
                /\ padding.right + size.width >= wgeom.width
                /\ padding.right <= wgeom.width

\* C29, the case: the requested size is wider and less high than the
\* window, whose padding had all four sides set.
C29_WiderThanWindow ==
    /\ pc = "updated"
    /\ window_padding = Padding(2, 3, 5, 7)
    /\ size = Geometry(10, 10)
    /\ wgeom = GeometryAt(0, 0, 8, 12)
    /\ padding = Padding(0, 0, 2, 0)

====
